---- MODULE Spec2Model ----
(***************************************************************************)
(* A model of check_copyright.py: the year-list codec                      *)
(* (generate_years_string / parse_years_string), the header rewriter       *)
(* (update_header) and the module-level driver loop.                       *)
(*                                                                         *)
(* Text is modelled as a sequence of one-character strings, so that the    *)
(* regular expressions, "%d" formatting and int() parsing are computed     *)
(* character by character.                                                 *)
(***************************************************************************)
EXTENDS Integers, Sequences, FiniteSets, TLC

(***************************************************************************)
(* Program constants                                                       *)
(***************************************************************************)
MAX_SEARCH_LINES == 20

\* datetime.datetime.now().year, read once at start-up; fixed to one year here
CURRENT_YEAR == 2024

\* the lower limit of the filter in parse_years_string (exclusive)
MinYear == 1900

(***************************************************************************)
(* Bounds of the model                                                     *)
(***************************************************************************)
\* number of command-line arguments (files) of one invocation
MaxFiles == 2
\* number of consecutive invocations of the script on the same files
MaxRuns == 2
\* number of pieces a text given to parse_years_string is built from
MaxPieces == 5
\* longest run of digits in a text given to parse_years_string
MaxDigits == 4

(***************************************************************************)
(* Characters                                                              *)
(***************************************************************************)
LF == "\n"
CR == "\r"

DigitChars == <<"0", "1", "2", "3", "4", "5", "6", "7", "8", "9">>

UpperCase == <<"A", "B", "C", "D", "E", "F", "G", "H", "I", "J", "K", "L", "M",
               "N", "O", "P", "Q", "R", "S", "T", "U", "V", "W", "X", "Y", "Z">>

LowerCase == <<"a", "b", "c", "d", "e", "f", "g", "h", "i", "j", "k", "l", "m",
               "n", "o", "p", "q", "r", "s", "t", "u", "v", "w", "x", "y", "z">>

Range(f) == {f[i] : i \in DOMAIN f}

SetMax(S) == CHOOSE x \in S : \A y \in S : y <= x

SetMin(S) == CHOOSE x \in S : \A y \in S : x <= y

Digits == Range(DigitChars)

WordChars == Range(UpperCase) \cup Range(LowerCase) \cup Range(DigitChars) \cup {"_"}

\* \d
IsDigit(c) == c \in Digits

\* \w (ASCII letters, digits and the underscore)
IsWordChar(c) == c \in WordChars

LowerOf == [c \in Range(UpperCase) |->
               LowerCase[CHOOSE i \in DOMAIN UpperCase : UpperCase[i] = c]]

\* case folding of re.IGNORECASE
Lower(c) == IF c \in DOMAIN LowerOf THEN LowerOf[c] ELSE c

\* the literal w occurs in s at position i, compared case-insensitively
LiteralAt(s, i, w) ==
    /\ i >= 1
    /\ i + Len(w) - 1 <= Len(s)
    /\ \A k \in 1..Len(w) : Lower(s[i + k - 1]) = Lower(w[k])

\* \b at the gap in front of position i
WordBoundary(s, i) ==
    (i > 1 /\ i - 1 <= Len(s) /\ IsWordChar(s[i - 1])) # (i <= Len(s) /\ IsWordChar(s[i]))

\* "." matches every character of s[i..j] (no newline among them)
DotStar(s, i, j) == \A k \in i..j : s[k] # LF

RECURSIVE Concat(_)
\* "".join(parts)
Concat(parts) ==
    IF parts = <<>> THEN <<>> ELSE Head(parts) \o Concat(Tail(parts))

(***************************************************************************)
(* "%d" % n  and  int(s)                                                   *)
(***************************************************************************)
RECURSIVE NatToStr(_)
NatToStr(n) ==
    IF n < 10 THEN <<DigitChars[n + 1]>>
    ELSE NatToStr(n \div 10) \o <<DigitChars[(n % 10) + 1]>>

IntToStr(n) == IF n < 0 THEN <<"-">> \o NatToStr(0 - n) ELSE NatToStr(n)

DigitValue(c) == (CHOOSE i \in DOMAIN DigitChars : DigitChars[i] = c) - 1

RECURSIVE StrToIntAcc(_, _)
StrToIntAcc(ds, acc) ==
    IF ds = <<>> THEN acc
    ELSE StrToIntAcc(Tail(ds), acc * 10 + DigitValue(Head(ds)))

StrToInt(ds) == StrToIntAcc(ds, 0)

(***************************************************************************)
(* generate_years_string                                                   *)
(***************************************************************************)
\* years[i] == years[i - 1] + 1
IsIncremental(prev, cur) == cur = prev + 1

EndOfSequenceNoRange(inc, prev) == <<",", " ">>

\* what is appended in front of years[i] when years[i] does not continue a run
EndOfSequence(inc, prev) ==
    IF inc THEN <<"-">> \o IntToStr(prev) \o <<",", " ">> ELSE <<",", " ">>

RECURSIVE GenerateLoop(_, _, _, _)
\* the body of "for i in range(1, len(years))"; j is i + 1 (sequences start at 1)
GenerateLoop(years, j, y_mod_strings, last_element_was_incremental) ==
    IF j > Len(years) THEN y_mod_strings
    ELSE IF IsIncremental(years[j - 1], years[j])
         THEN IF j = Len(years)
              THEN GenerateLoop(years, j + 1,
                                Append(y_mod_strings, <<"-">> \o IntToStr(years[j])), TRUE)
              ELSE GenerateLoop(years, j + 1, y_mod_strings, TRUE)
         ELSE GenerateLoop(years, j + 1,
                           y_mod_strings
                             \o <<EndOfSequence(last_element_was_incremental, years[j - 1])>>
                             \o <<IntToStr(years[j])>>,
                           FALSE)

generate_years_string(years) ==
    IF Len(years) > 0
    THEN Concat(GenerateLoop(years, 2, <<IntToStr(years[1])>>, FALSE))
    ELSE <<>>

(***************************************************************************)
(* parse_years_string                                                      *)
(***************************************************************************)
\* the last position of the run of digits that starts at p
DigitRunEnd(s, p) ==
    SetMax({e \in p..Len(s) : \A k \in p..e : IsDigit(s[k])})

\* (?<![-\d])
LookBehindOk(s, p) == p = 1 \/ (s[p - 1] # "-" /\ ~IsDigit(s[p - 1]))

LookAheadDigitOnly(s, q) == q > Len(s) \/ ~IsDigit(s[q])

\* (?![-\d])
LookAheadOk(s, q) == q > Len(s) \/ (s[q] # "-" /\ ~IsDigit(s[q]))

\* end of the match of (?<![-\d])\d+(?![-\d]) starting at p, 0 if there is none
SingleMatchEnd(s, p) ==
    IF ~IsDigit(s[p]) \/ ~LookBehindOk(s, p) THEN 0
    ELSE LET ends == {k \in p..DigitRunEnd(s, p) : LookAheadOk(s, k + 1)}
         IN  IF ends = {} THEN 0 ELSE SetMax(ends)

RECURSIVE FindSingles(_, _)
\* re.findall(r"(?<![-\d])\d+(?![-\d])", s), scanning from position p
FindSingles(s, p) ==
    IF p > Len(s) THEN <<>>
    ELSE LET m == SingleMatchEnd(s, p)
         IN  IF m = 0 THEN FindSingles(s, p + 1)
             ELSE <<SubSeq(s, p, m)>> \o FindSingles(s, m + 1)

\* end of the match of \d+-\d+ starting at p, 0 if there is none
RangeMatchEnd(s, p) ==
    IF ~IsDigit(s[p]) THEN 0
    ELSE LET ks == {k \in p..DigitRunEnd(s, p) :
                      k + 2 <= Len(s) /\ s[k + 1] = "-" /\ IsDigit(s[k + 2])}
         IN  IF ks = {} THEN 0 ELSE DigitRunEnd(s, SetMax(ks) + 2)

RECURSIVE FindRanges(_, _)
\* re.findall(r"\d+-\d+", s), scanning from position p: matches do not overlap
FindRanges(s, p) ==
    IF p > Len(s) THEN <<>>
    ELSE LET m == RangeMatchEnd(s, p)
         IN  IF m = 0 THEN FindRanges(s, p + 1)
             ELSE <<SubSeq(s, p, m)>> \o FindRanges(s, m + 1)

RECURSIVE FindNumbers(_, _)
\* re.findall(r"\d+", s), scanning from position p
FindNumbers(s, p) ==
    IF p > Len(s) THEN <<>>
    ELSE IF IsDigit(s[p])
         THEN <<SubSeq(s, p, DigitRunEnd(s, p))>> \o FindNumbers(s, DigitRunEnd(s, p) + 1)
         ELSE FindNumbers(s, p + 1)

\* range(int(limits[0]), int(limits[1]) + 1)
ExpandRange(r) ==
    LET limits == FindNumbers(r, 1)
    IN  StrToInt(limits[1]) .. StrToInt(limits[2])

InYearWindowExclusive(y) == MinYear < y /\ y < CURRENT_YEAR

\* 1900 < y <= CURRENT_YEAR
InYearWindow(y) == MinYear < y /\ y <= CURRENT_YEAR

\* list(set(...)) followed by .sort(): the members of S in ascending order
SortedList(S) ==
    IF S = {} THEN <<>>
    ELSE LET lo == SetMin(S)
             hi == SetMax(S)
         IN  SelectSeq([i \in 1..(hi - lo + 1) |-> lo + i - 1], LAMBDA y : y \in S)

parse_years_string(s) ==
    LET singles == FindSingles(s, 1)
        ranges  == FindRanges(s, 1)
        years   == {StrToInt(singles[i]) : i \in DOMAIN singles}
                     \cup UNION {ExpandRange(ranges[i]) : i \in DOMAIN ranges}
    IN  SortedList({y \in years : InYearWindow(y)})

(***************************************************************************)
(* Text files: open(..., encoding="utf-8") with the default newline=None   *)
(***************************************************************************)
\* os.linesep of the platform the hook runs on (POSIX)
os_linesep == <<LF>>

RECURSIVE UniversalNewlines(_)
\* what reading returns: "\r\n" and "\r" on disk are both returned as "\n"
UniversalNewlines(bytes) ==
    IF bytes = <<>> THEN <<>>
    ELSE IF Head(bytes) = CR
         THEN <<LF>> \o UniversalNewlines(IF Len(bytes) >= 2 /\ bytes[2] = LF
                                          THEN Tail(Tail(bytes))
                                          ELSE Tail(bytes))
         ELSE <<Head(bytes)>> \o UniversalNewlines(Tail(bytes))

RECURSIVE WriteNewlines(_)
\* what writing stores: every "\n" is stored as os.linesep
WriteNewlines(text) ==
    IF text = <<>> THEN <<>>
    ELSE (IF Head(text) = LF THEN os_linesep ELSE <<Head(text)>>) \o WriteNewlines(Tail(text))

\* file_handle.read() from the start of the file
FileRead(bytes) == UniversalNewlines(bytes)

\* file_handle.write(text) at offset pos: overwrites, and extends the file if needed
FileWrite(bytes, pos, text) ==
    LET out == WriteNewlines(text)
    IN  [bytes |-> SubSeq(bytes, 1, pos) \o out \o SubSeq(bytes, pos + Len(out) + 1, Len(bytes)),
         pos   |-> pos + Len(out)]

\* file_handle.truncate(): cuts the file at the current offset
FileTruncate(bytes, pos) == SubSeq(bytes, 1, pos)

RECURSIVE SplitLines(_)
\* the lines "for line in f" yields, each with its trailing "\n" when it has one
SplitLines(text) ==
    IF text = <<>> THEN <<>>
    ELSE LET ends == {k \in 1..Len(text) : text[k] = LF}
             e    == IF ends = {} THEN Len(text) ELSE SetMin(ends)
         IN  <<SubSeq(text, 1, e)>> \o SplitLines(SubSeq(text, e + 1, Len(text)))

(***************************************************************************)
(* The three patterns                                                      *)
(***************************************************************************)
CopyrightWord == <<"C", "O", "P", "Y", "R", "I", "G", "H", "T">>

SpdxId == <<"S", "P", "D", "X", "-", "L", "i", "c", "e", "n", "s", "e", "-",
            "I", "d", "e", "n", "t", "i", "f", "i", "e", "r", ":", " ", "M", "I", "T">>

CopyrightPrefix == <<"C", "o", "p", "y", "r", "i", "g", "h", "t", " ", "(", "c", ")", " ">>

\* str(CURRENT_YEAR)
CurrentYearStr == IntToStr(CURRENT_YEAR)

\* COPYRIGHT_YEAR_REGEX.match(line):  .*\bCOPYRIGHT.*<CURRENT_YEAR>.*  anchored at the start
COPYRIGHT_YEAR_REGEX(line) ==
    \E i \in 1..Len(line) :
        /\ LiteralAt(line, i, CopyrightWord)
        /\ WordBoundary(line, i)
        /\ DotStar(line, 1, i - 1)
        /\ \E j \in (i + Len(CopyrightWord))..Len(line) :
              /\ LiteralAt(line, j, CurrentYearStr)
              /\ DotStar(line, i + Len(CopyrightWord), j - 1)

\* SPDX_REGEX.match(line):  .*SPDX-License-Identifier: MIT.*  anchored at the start
SPDX_REGEX(line) ==
    \E i \in 1..Len(line) :
        /\ LiteralAt(line, i, SpdxId)
        /\ DotStar(line, 1, i - 1)

\* [0-9,)]
IsYearListChar(c) == IsDigit(c) \/ c \in {",", ")"}

\* the positions where a match of \bCopyright\b.*[0-9,)] that starts at i can end
PatternCopyrightEnds(s, i) ==
    IF LiteralAt(s, i, CopyrightWord) /\ WordBoundary(s, i)
         /\ WordBoundary(s, i + Len(CopyrightWord))
    THEN {e \in (i + Len(CopyrightWord))..Len(s) :
            DotStar(s, i + Len(CopyrightWord), e - 1) /\ IsYearListChar(s[e])}
    ELSE {}

PatternCopyrightStarts(s) == {i \in 1..Len(s) : PatternCopyrightEnds(s, i) # {}}

\* re.search(PATTERN_COPYRIGHT, s): the leftmost match, as long as ".*" allows
PATTERN_COPYRIGHT(s) ==
    IF PatternCopyrightStarts(s) = {} THEN [found |-> FALSE, start |-> 0, end |-> 0]
    ELSE LET i == SetMin(PatternCopyrightStarts(s))
         IN  [found |-> TRUE, start |-> i, end |-> SetMax(PatternCopyrightEnds(s, i))]

\* re.sub(PATTERN_COPYRIGHT, repl, s, 1): replaces the first match only
SubFirst(s, repl) ==
    LET m == PATTERN_COPYRIGHT(s)
    IN  IF m.found
        THEN SubSeq(s, 1, m.start - 1) \o repl \o SubSeq(s, m.end + 1, Len(s))
        ELSE s

(***************************************************************************)
(* update_header                                                           *)
(***************************************************************************)
NeedsCurrentYearWhenEmpty(notice_years) == notice_years = <<>>

\* not notice_years or notice_years[-1] != CURRENT_YEAR
NeedsCurrentYear(notice_years) ==
    notice_years = <<>> \/ notice_years[Len(notice_years)] # CURRENT_YEAR

\* lines 128-131: the years of the matched notice, with the current year at the end
NoticeYears(group0) ==
    LET notice_years == parse_years_string(group0)
    IN  IF NeedsCurrentYear(notice_years)
        THEN Append(notice_years, CURRENT_YEAR) ELSE notice_years

\* lines 125-137: the text update_header computes from the text it has read
NewFileData(file_data) ==
    LET copyright_match == PATTERN_COPYRIGHT(file_data)
    IN  IF copyright_match.found
        THEN SubFirst(file_data,
                      CopyrightPrefix \o generate_years_string(NoticeYears(
                          SubSeq(file_data, copyright_match.start, copyright_match.end))))
        ELSE file_data

WritesBackAlways(copyright_match) == TRUE

\* seek(0), write and truncate are inside "if copyright_match:"
WritesBack(copyright_match) == copyright_match.found

\* update_header on a file holding bytes: the bytes it leaves and the calls it made
update_header(bytes) ==
    LET file_data       == FileRead(bytes)
        copyright_match == PATTERN_COPYRIGHT(file_data)
    IN  IF WritesBack(copyright_match)
        THEN LET w == FileWrite(bytes, 0, NewFileData(file_data))
             IN  [bytes   |-> FileTruncate(w.bytes, w.pos),
                  matched |-> copyright_match.found,
                  ops     |-> <<"read", "seek", "write", "truncate">>]
        ELSE [bytes   |-> bytes,
              matched |-> copyright_match.found,
              ops     |-> <<"read">>]

(***************************************************************************)
(* The scan of one file (lines 147-157)                                    *)
(***************************************************************************)
ScanBreakEarly(line_num) == line_num >= MAX_SEARCH_LINES

\* if line_num > MAX_SEARCH_LINES: break
ScanBreak(line_num) == line_num > MAX_SEARCH_LINES

RECURSIVE ScanLoop(_, _, _, _)
\* "for line_num, line in enumerate(f)"; n is line_num + 1
ScanLoop(lines, n, cf, sf) ==
    IF n > Len(lines) THEN [copyright_found |-> cf, spdx_found |-> sf]
    ELSE IF ScanBreak(n - 1) THEN [copyright_found |-> cf, spdx_found |-> sf]
         ELSE ScanLoop(lines, n + 1,
                       cf \/ COPYRIGHT_YEAR_REGEX(lines[n]),
                       sf \/ SPDX_REGEX(lines[n]))

ScanFile(bytes) == ScanLoop(SplitLines(FileRead(bytes)), 1, FALSE, FALSE)

(***************************************************************************)
(* State                                                                   *)
(***************************************************************************)
VARIABLES
    argv,                 \* sys.argv[1:], the files to check
    disk,                 \* the bytes of every file
    pc,                   \* where the script is
    arg,                  \* the position of changed_file in argv
    copyright_found,
    spdx_found,
    bad_copyright_files,
    bad_spdx_files,
    stderr,               \* what was printed to sys.stderr, one tag per message
    exit_status,          \* <<>> while running, <<code>> once the process has ended
    run,                  \* the number of the current invocation
    disk_init,            \* history: the files before the first invocation
    disk_before,          \* history: the files before the current invocation
    log,                  \* history: one record per file scanned in this invocation
    io_error,             \* history: <<>>, or where an I/O error was raised
    cpc,                  \* where the codec exercise is
    years_in,             \* a year list given to generate_years_string
    text_in,              \* a text given to parse_years_string
    years_string,         \* the result of generate_years_string
    years_out             \* the result of parse_years_string

driver_vars == <<argv, disk, pc, arg, copyright_found, spdx_found, bad_copyright_files,
                 bad_spdx_files, stderr, exit_status, run, disk_init, disk_before, log,
                 io_error>>

codec_vars == <<cpc, years_in, text_in, years_string, years_out>>

vars == <<argv, disk, pc, arg, copyright_found, spdx_found, bad_copyright_files,
          bad_spdx_files, stderr, exit_status, run, disk_init, disk_before, log,
          io_error, cpc, years_in, text_in, years_string, years_out>>

(***************************************************************************)
(* Inputs                                                                  *)
(***************************************************************************)
LineStale ==
    <<"#", " ">> \o CopyrightPrefix \o IntToStr(CURRENT_YEAR - 4) \o <<" ", "A", "r", "m">>

LineCurrent == CopyrightPrefix \o IntToStr(CURRENT_YEAR)

LineSpdx == <<"#", " ">> \o SpdxId

LineNoYears == <<"C", "o", "p", "y", "r", "i", "g", "h", "t", " ", "(", "c", ")", " ", "A", "r", "m">>

LineOldList ==
    <<"c", "o", "p", "y", "r", "i", "g", "h", "t", " ">>
      \o IntToStr(CURRENT_YEAR - 3) \o <<",", " ">>
      \o IntToStr(CURRENT_YEAR - 2) \o <<",", " ">>
      \o IntToStr(CURRENT_YEAR - 1)

Bodies ==
    { <<>>,
      <<LineStale>>,
      <<LineCurrent, LineSpdx>>,
      <<LineSpdx>>,
      <<LineNoYears>>,
      <<LineOldList, LineSpdx>> }

\* the number of empty lines in front of the body: the body starts at line index 0,
\* at the last index that is scanned, or just after it
Pads == {0, MAX_SEARCH_LINES, MAX_SEARCH_LINES + 1}

\* a file of pad empty lines followed by the lines of body, every line ended by eol
FileOf(pad, body, eol) ==
    Concat([i \in 1..pad |-> eol]) \o Concat([i \in 1..Len(body) |-> body[i] \o eol])

FileContents ==
    {FileOf(pad, body, <<LF>>) : pad \in Pads, body \in Bodies}
      \cup {FileOf(0, <<LineStale, LineSpdx>>, <<CR, LF>>),
            FileOf(0, <<LineCurrent, LineSpdx>>, <<CR, LF>>),
            LineStale}

\* what the files after the first one hold: a stale notice, or a valid header
OtherContents ==
    {FileOf(0, <<LineStale>>, <<LF>>), FileOf(0, <<LineCurrent, LineSpdx>>, <<LF>>)}

YearPool == {MinYear, 1991, 2001, 2002, 2003, 2006, 2007, 2020, 2021,
             CURRENT_YEAR, CURRENT_YEAR + 1}

Pieces ==
    { IntToStr(MinYear), IntToStr(CURRENT_YEAR - 1), IntToStr(CURRENT_YEAR),
      IntToStr(CURRENT_YEAR + 1), <<"-">>, <<",", " ">> }

\* no run of digits of s is longer than MaxDigits
DigitRunsBounded(s) ==
    \A p \in 1..Len(s) : IsDigit(s[p]) => DigitRunEnd(s, p) - p + 1 <= MaxDigits

(***************************************************************************)
(* The driver (lines 143-182)                                              *)
(***************************************************************************)
DriverIdle ==
    /\ argv = <<>>
    /\ disk = <<>>
    /\ disk_init = <<>>
    /\ disk_before = <<>>
    /\ pc = "idle"
    /\ arg = 1
    /\ copyright_found = FALSE
    /\ spdx_found = FALSE
    /\ bad_copyright_files = <<>>
    /\ bad_spdx_files = <<>>
    /\ stderr = <<>>
    /\ exit_status = <<>>
    /\ run = 1
    /\ log = <<>>
    /\ io_error = <<>>

CodecIdle ==
    /\ cpc = "idle"
    /\ years_in = <<>>
    /\ text_in = <<>>
    /\ years_string = <<>>
    /\ years_out = <<>>

\* the state when the interpreter reaches line 143, for every choice of files
Init ==
    /\ \E n \in 0..MaxFiles :
          /\ argv = [i \in 1..n |-> i]
          /\ \E first \in FileContents, others \in [2..n -> OtherContents] :
                disk = [i \in 1..n |-> IF i = 1 THEN first ELSE others[i]]
    /\ disk_init = disk
    /\ disk_before = disk
    /\ pc = "loop"
    /\ arg = 1
    /\ copyright_found = FALSE
    /\ spdx_found = FALSE
    /\ bad_copyright_files = <<>>
    /\ bad_spdx_files = <<>>
    /\ stderr = <<>>
    /\ exit_status = <<>>
    /\ run = 1
    /\ log = <<>>
    /\ io_error = <<>>
    /\ CodecIdle

changed_file == argv[arg]

Swallowed(where) ==
    /\ pc' = "check_spdx"
    /\ stderr' = Append(stderr, "traceback")
    /\ exit_status' = exit_status
    /\ io_error' = <<[at |-> arg, in |-> where]>>

\* an exception nobody catches: traceback on stderr, exit status 1
Uncaught(where) ==
    /\ pc' = "crashed"
    /\ stderr' = Append(stderr, "traceback")
    /\ exit_status' = <<1>>
    /\ io_error' = <<[at |-> arg, in |-> where]>>

\* lines 146-157: the next file is opened and its first lines are scanned
Scan ==
    /\ pc = "loop"
    /\ arg <= Len(argv)
    /\ LET r == ScanFile(disk[changed_file])
       IN  /\ copyright_found' = r.copyright_found
           /\ spdx_found' = r.spdx_found
           /\ log' = Append(log, [file            |-> changed_file,
                                  pre             |-> disk[changed_file],
                                  copyright_found |-> r.copyright_found,
                                  spdx_found      |-> r.spdx_found,
                                  update          |-> "none",
                                  ops             |-> <<>>,
                                  post            |-> disk[changed_file]])
    /\ pc' = "check_copyright"
    /\ UNCHANGED <<argv, disk, arg, bad_copyright_files, bad_spdx_files, stderr,
                   exit_status, run, disk_init, disk_before, io_error>>
    /\ UNCHANGED codec_vars

\* line 150 or 151 raises (missing file, permission denied, invalid UTF-8)
ScanError ==
    /\ pc = "loop"
    /\ arg <= Len(argv)
    /\ Uncaught("scan")
    /\ UNCHANGED <<argv, disk, arg, copyright_found, spdx_found, bad_copyright_files,
                   bad_spdx_files, run, disk_init, disk_before, log>>
    /\ UNCHANGED codec_vars

NeedsFixAlsoSpdx(cf, sf) == ~cf \/ ~sf

\* if not copyright_found:
NeedsFix(cf, sf) == ~cf

\* lines 159-161
CheckCopyright ==
    /\ pc = "check_copyright"
    /\ IF NeedsFix(copyright_found, spdx_found)
       THEN LET u == update_header(disk[changed_file])
            IN  /\ bad_copyright_files' = Append(bad_copyright_files, changed_file)
                /\ disk' = [disk EXCEPT ![changed_file] = u.bytes]
                /\ log' = [log EXCEPT ![Len(log)].update = "done",
                                      ![Len(log)].ops = u.ops,
                                      ![Len(log)].post = u.bytes]
       ELSE UNCHANGED <<bad_copyright_files, disk, log>>
    /\ pc' = "check_spdx"
    /\ UNCHANGED <<argv, arg, copyright_found, spdx_found, bad_spdx_files, stderr,
                   exit_status, run, disk_init, disk_before, io_error>>
    /\ UNCHANGED codec_vars

\* lines 159-161 when line 122 or 123 raises (the file cannot be opened for writing)
UpdateHeaderError ==
    /\ pc = "check_copyright"
    /\ NeedsFix(copyright_found, spdx_found)
    /\ bad_copyright_files' = Append(bad_copyright_files, changed_file)
    /\ log' = [log EXCEPT ![Len(log)].update = "failed"]
    /\ Uncaught("update_header")
    /\ UNCHANGED <<argv, disk, arg, copyright_found, spdx_found, bad_spdx_files, run,
                   disk_init, disk_before>>
    /\ UNCHANGED codec_vars

\* lines 162-163, and back to the head of the loop
CheckSpdx ==
    /\ pc = "check_spdx"
    /\ bad_spdx_files' = IF ~spdx_found THEN Append(bad_spdx_files, changed_file)
                         ELSE bad_spdx_files
    /\ arg' = arg + 1
    /\ pc' = "loop"
    /\ UNCHANGED <<argv, disk, copyright_found, spdx_found, bad_copyright_files, stderr,
                   exit_status, run, disk_init, disk_before, log, io_error>>
    /\ UNCHANGED codec_vars

ExitsNonZeroCopyrightOnly(bc, bs) == bc # <<>>

\* if bad_copyright_files or bad_spdx_files: sys.exit(1)
ExitsNonZero(bc, bs) == bc # <<>> \/ bs # <<>>

\* lines 165-182: the two messages and the exit status
Report ==
    /\ pc = "loop"
    /\ arg > Len(argv)
    /\ stderr' = stderr
                   \o (IF bad_copyright_files # <<>> THEN <<"copyright">> ELSE <<>>)
                   \o (IF bad_spdx_files # <<>> THEN <<"spdx">> ELSE <<>>)
    /\ exit_status' = IF ExitsNonZero(bad_copyright_files, bad_spdx_files)
                      THEN <<1>> ELSE <<0>>
    /\ pc' = "exited"
    /\ UNCHANGED <<argv, disk, arg, copyright_found, spdx_found, bad_copyright_files,
                   bad_spdx_files, run, disk_init, disk_before, log, io_error>>
    /\ UNCHANGED codec_vars

\* the script is started again on the same arguments (the hook runs at the next commit)
Rerun ==
    /\ pc = "exited"
    /\ run < MaxRuns
    /\ run' = run + 1
    /\ disk_before' = disk
    /\ pc' = "loop"
    /\ arg' = 1
    /\ copyright_found' = FALSE
    /\ spdx_found' = FALSE
    /\ bad_copyright_files' = <<>>
    /\ bad_spdx_files' = <<>>
    /\ stderr' = <<>>
    /\ exit_status' = <<>>
    /\ log' = <<>>
    /\ UNCHANGED <<argv, disk, disk_init, io_error>>
    /\ UNCHANGED codec_vars

Next ==
    \/ Scan
    \/ ScanError
    \/ CheckCopyright
    \/ UpdateHeaderError
    \/ CheckSpdx
    \/ Report
    \/ Rerun

Spec == Init /\ [][Next]_vars

(***************************************************************************)
(* The codec on its own                                                    *)
(***************************************************************************)
\* the texts parse_years_string is given: up to MaxPieces pieces, one after the other
Texts ==
    {t \in {Concat(ps) : ps \in UNION {[1..n -> Pieces] : n \in 0..MaxPieces}} :
        DigitRunsBounded(t)}

CodecInit ==
    /\ DriverIdle
    /\ years_string = <<>>
    /\ years_out = <<>>
    /\ \/ /\ cpc = "generate"
          /\ years_in \in {SortedList(S) : S \in SUBSET YearPool}
          /\ text_in = <<>>
       \/ /\ cpc = "parse"
          /\ years_in = <<>>
          /\ text_in \in Texts

\* generate_years_string(years_in)
Generate ==
    /\ cpc = "generate"
    /\ years_string' = generate_years_string(years_in)
    /\ cpc' = "generated"
    /\ UNCHANGED <<years_in, text_in, years_out>>
    /\ UNCHANGED driver_vars

\* parse_years_string of what generate_years_string returned
ParseGenerated ==
    /\ cpc = "generated"
    /\ years_out' = parse_years_string(years_string)
    /\ cpc' = "round_trip"
    /\ UNCHANGED <<years_in, text_in, years_string>>
    /\ UNCHANGED driver_vars

\* parse_years_string(text_in)
ParseText ==
    /\ cpc = "parse"
    /\ years_out' = parse_years_string(text_in)
    /\ cpc' = "parsed"
    /\ UNCHANGED <<years_in, text_in, years_string>>
    /\ UNCHANGED driver_vars

CodecNext ==
    \/ Generate
    \/ ParseGenerated
    \/ ParseText

CodecSpec == CodecInit /\ [][CodecNext]_vars

(***************************************************************************)
(* Properties of the driver                                                *)
(***************************************************************************)
LinesOf(bytes) == SplitLines(FileRead(bytes))

\* the loose pattern matches somewhere in the file
LooseMatch(bytes) == PATTERN_COPYRIGHT(FileRead(bytes)).found

\* the index (from 0) of the line the first match of the loose pattern starts in
FirstMatchLine(text) ==
    Cardinality({k \in 1..(PATTERN_COPYRIGHT(text).start - 1) : text[k] = LF})

FullOverwrite == <<"read", "seek", "write", "truncate">>

PassedBoth(r) == r.copyright_found /\ r.spdx_found

\* C1: once the process has ended without a file having been unreadable, its exit
\* status is 1 if and only if some file failed the copyright check or the SPDX
\* check, which at the end of the loop means that one of the two lists is not
\* empty, and it is 0 exactly when every file passed both checks.
ExitStatusContract ==
    (exit_status # <<>> /\ (io_error = <<>> \/ io_error[1].in # "scan")) =>
        /\ exit_status \in {<<0>>, <<1>>}
        /\ exit_status = <<1>> <=> \E i \in DOMAIN log : ~PassedBoth(log[i])
        /\ exit_status = <<0>> <=>
              (Len(log) = Len(argv) /\ \A i \in DOMAIN log : PassedBoth(log[i]))
        /\ pc = "exited" =>
              (exit_status = <<1>> <=> (bad_copyright_files # <<>> \/ bad_spdx_files # <<>>))

\* a run that ends with status 1 because of a missing SPDX line alone
ExitStatusWitness ==
    /\ pc = "exited"
    /\ exit_status = <<1>>
    /\ bad_copyright_files = <<>>
    /\ bad_spdx_files # <<>>

ClaimedRewrite(pre) ==
    LET m      == PATTERN_COPYRIGHT(pre)
        parsed == parse_years_string(SubSeq(pre, m.start, m.end))
        years  == IF parsed = <<>> \/ parsed[Len(parsed)] # CURRENT_YEAR
                  THEN Append(parsed, CURRENT_YEAR) ELSE parsed
    IN  SubSeq(pre, 1, m.start - 1)
          \o CopyrightPrefix \o generate_years_string(years)
          \o SubSeq(pre, m.end + 1, Len(pre))

\* C6: a file that fails the copyright check and in which the loose pattern matches
\* holds, after the rewrite, its old content with the first match replaced by
\* "Copyright (c) " and the rendering of the parsed years (plus the current year
\* when it is missing); all content outside the first match is preserved.
RewritePreservesRest ==
    \A i \in DOMAIN log :
        (log[i].update = "done" /\ PATTERN_COPYRIGHT(log[i].pre).found) =>
            log[i].post = ClaimedRewrite(log[i].pre)

\* C7: a file differs from what it was before the run only if it failed the copyright
\* check and the loose pattern matched in it.  A file that passes the copyright
\* check is not touched, with or without its SPDX line; a file without any copyright
\* mention keeps its content and is listed as a copyright failure; when every file
\* passes both checks nothing is modified, nothing is printed and the status is 0.
FrameOfRun ==
    /\ \A f \in DOMAIN disk :
          disk[f] # disk_before[f] =>
              \E i \in DOMAIN log :
                  /\ log[i].file = f
                  /\ ~log[i].copyright_found
                  /\ LooseMatch(log[i].pre)
    /\ \A i \in DOMAIN log :
          /\ log[i].copyright_found =>
                (log[i].update = "none" /\ disk[log[i].file] = disk_before[log[i].file])
          /\ (log[i].update = "done" /\ ~LooseMatch(log[i].pre)) =>
                /\ disk[log[i].file] = disk_before[log[i].file]
                /\ \E j \in DOMAIN bad_copyright_files : bad_copyright_files[j] = log[i].file
    /\ (pc = "exited" /\ \A i \in DOMAIN log : PassedBoth(log[i])) =>
          /\ disk = disk_before
          /\ stderr = <<>>
          /\ exit_status = <<0>>

\* a file without any copyright mention went through update_header and is unchanged,
\* next to a file with a valid header that was left alone
FrameOfRunWitness ==
    /\ pc = "exited"
    /\ disk = disk_before
    /\ \E i \in DOMAIN log : log[i].update = "done" /\ ~LooseMatch(log[i].pre)
    /\ \E i \in DOMAIN log : PassedBoth(log[i])

\* C8 as stated: every call of update_header overwrites the file in full, also when
\* the loose pattern has no match.
EveryCallOverwrites ==
    \A i \in DOMAIN log : log[i].update = "done" => log[i].ops = FullOverwrite

\* C8, amended: a call of update_header overwrites the file in full (seek to the
\* start, write, truncate) exactly when the loose pattern matches, also when the
\* new content is the old content; without a match the file is read and not written.
OverwriteOnlyOnMatch ==
    \A i \in DOMAIN log :
        log[i].update = "done" =>
            IF LooseMatch(log[i].pre)
            THEN log[i].ops = FullOverwrite
            ELSE log[i].ops = <<"read">> /\ log[i].post = log[i].pre

\* a valid notice below the scanned lines: overwritten with what it already held
OverwriteWitness ==
    \E i \in DOMAIN log :
        /\ log[i].update = "done"
        /\ LooseMatch(log[i].pre)
        /\ log[i].ops = FullOverwrite
        /\ log[i].post = log[i].pre

\* C9: when the k-th file cannot be opened or read the run ends there: no later file
\* is scanned or modified, the earlier rewrites stay as they are, and the script
\* never prints its report nor takes its exit-status decision.
NoErrorIsolation ==
    io_error # <<>> =>
        LET k == io_error[1].at
        IN  /\ pc = "crashed"
            /\ arg = k
            /\ Len(log) = IF io_error[1].in = "scan" THEN k - 1 ELSE k
            /\ \A j \in DOMAIN argv : j >= k => disk[argv[j]] = disk_before[argv[j]]
            /\ \A i \in DOMAIN log : disk[log[i].file] = log[i].post
            /\ stderr = <<"traceback">>
            /\ exit_status = <<1>>

\* the second file cannot be read after the first one has been rewritten
NoErrorIsolationWitness ==
    /\ pc = "crashed"
    /\ io_error # <<>>
    /\ io_error[1].at = 2
    /\ io_error[1].in = "scan"
    /\ disk[argv[1]] # disk_before[argv[1]]

StrictlyAscending(years) == \A i \in 1..(Len(years) - 1) : years[i] < years[i + 1]

\* C10: a file whose first match of the loose pattern lies in the first 21 lines is
\* fixed by one run: the year list that is rendered is strictly ascending and ends
\* with the current year, the rewritten line holds Copyright followed by the current
\* year, and every later run finds copyright_found true, does not list the file and
\* leaves it as it is.
FixConverges ==
    /\ \A i \in DOMAIN log :
          (log[i].update = "done" /\ LooseMatch(log[i].pre)) =>
              LET text  == FileRead(log[i].pre)
                  m     == PATTERN_COPYRIGHT(text)
                  years == NoticeYears(SubSeq(text, m.start, m.end))
                  line  == FirstMatchLine(text)
              IN  /\ StrictlyAscending(years)
                  /\ years[Len(years)] = CURRENT_YEAR
                  /\ line <= 20 => COPYRIGHT_YEAR_REGEX(LinesOf(log[i].post)[line + 1])
    /\ run >= 2 =>
          \A i \in DOMAIN log :
              LET f == log[i].file
              IN  (LooseMatch(disk_init[f]) /\ FirstMatchLine(FileRead(disk_init[f])) <= 20) =>
                      /\ log[i].copyright_found
                      /\ \A j \in DOMAIN bad_copyright_files : bad_copyright_files[j] # f
                      /\ disk[f] = disk_before[f]

\* a second run over a file that the first run has rewritten
FixConvergesWitness ==
    /\ run = 2
    /\ pc = "exited"
    /\ \E i \in DOMAIN log :
          /\ log[i].copyright_found
          /\ disk_init[log[i].file] # disk[log[i].file]
          /\ disk[log[i].file] = disk_before[log[i].file]

(***************************************************************************)
(* Properties of the codec                                                 *)
(***************************************************************************)
\* C2: a strictly ascending list of years y with 1900 < y <= CURRENT_YEAR, the empty
\* list included, is what parse_years_string returns for its rendering.
RoundTrip ==
    (cpc = "round_trip" /\ \A i \in DOMAIN years_in :
                               1900 < years_in[i] /\ years_in[i] <= CURRENT_YEAR) =>
        years_out = years_in

\* a list with a single year, a run and the current year has made the round trip
RoundTripWitness ==
    /\ cpc = "round_trip"
    /\ years_in = <<1991, 2001, 2002, 2003, CURRENT_YEAR>>
    /\ years_out = years_in

\* the maximal runs of consecutive years of a list, as <<first, last>>
RunsOf(years) ==
    LET S == Range(years)
    IN  {r \in S \X S :
            /\ r[1] <= r[2]
            /\ \A y \in r[1]..r[2] : y \in S
            /\ (r[1] - 1) \notin S
            /\ (r[2] + 1) \notin S}

\* "Y" for a run of one year, "Y1-Y2" for a longer one
RunToken(r) ==
    IF r[1] = r[2] THEN IntToStr(r[1]) ELSE IntToStr(r[1]) \o <<"-">> \o IntToStr(r[2])

RECURSIVE JoinRuns(_)
\* the tokens of the runs in ascending order, joined by ", "
JoinRuns(runs) ==
    IF runs = {} THEN <<>>
    ELSE LET r == CHOOSE x \in runs : \A y \in runs : x[1] <= y[1]
         IN  IF runs = {r} THEN RunToken(r)
             ELSE RunToken(r) \o <<",", " ">> \o JoinRuns(runs \ {r})

\* C3: generate_years_string returns the maximal runs of consecutive years in order,
\* joined by ", ", a run of one year as "Y" and every longer run, a run of two
\* included, as "Y1-Y2"; the empty list gives the empty string.
CompactionCorrect ==
    cpc \in {"generated", "round_trip"} =>
        /\ years_string = JoinRuns(RunsOf(years_in))
        /\ years_in = <<>> => years_string = <<>>
        /\ years_in = <<1991, 2001, 2002, 2003, 2006, 2007>> =>
              years_string = <<"1", "9", "9", "1", ",", " ", "2", "0", "0", "1", "-",
                               "2", "0", "0", "3", ",", " ", "2", "0", "0", "6", "-",
                               "2", "0", "0", "7">>
        /\ years_in = <<2020, 2021>> =>
              years_string = <<"2", "0", "2", "0", "-", "2", "0", "2", "1">>

\* the example of the docstring has been rendered
CompactionWitness ==
    /\ cpc = "generated"
    /\ years_in = <<1991, 2001, 2002, 2003, 2006, 2007>>
    /\ Len(years_string) = 26

\* the maximal runs of digits of a text, as <<first position, last position>>
NumbersOf(s) ==
    LET firsts == {a \in 1..Len(s) : IsDigit(s[a]) /\ (a = 1 \/ ~IsDigit(s[a - 1]))}
        lasts  == {b \in 1..Len(s) : IsDigit(s[b]) /\ (b = Len(s) \/ ~IsDigit(s[b + 1]))}
    IN  {r \in firsts \X lasts : r[1] <= r[2] /\ \A k \in r[1]..r[2] : IsDigit(s[k])}

NumberValue(s, r) == StrToInt(SubSeq(s, r[1], r[2]))

\* a number with no hyphen on either side
Standalone(s) ==
    {r \in NumbersOf(s) :
        /\ ~(r[1] > 1 /\ s[r[1] - 1] = "-")
        /\ ~(r[2] < Len(s) /\ s[r[2] + 1] = "-")}

\* two numbers with exactly one hyphen between them
HyphenPairs(s) ==
    {p \in NumbersOf(s) \X NumbersOf(s) :
        p[2][1] = p[1][2] + 2 /\ s[p[1][2] + 1] = "-"}

RECURSIVE ChainPosition(_, _)
\* the position of the number r in its chain of numbers joined by single hyphens
ChainPosition(s, r) ==
    IF \E p \in HyphenPairs(s) : p[2] = r
    THEN 1 + ChainPosition(s, (CHOOSE p \in HyphenPairs(s) : p[2] = r)[1])
    ELSE 1

\* the years of the text that lie in the window, given the pairs that count as ranges
YearsIn(s, pairs) ==
    LET singles == {NumberValue(s, r) : r \in Standalone(s)}
        limits  == {<<NumberValue(s, p[1]), NumberValue(s, p[2])>> : p \in pairs}
    IN  {y \in 1901..CURRENT_YEAR :
            y \in singles \/ \E l \in limits : l[1] <= y /\ y <= l[2]}

====
